---- MODULE Spec2Model ----
(***************************************************************************)
(* Image downlink core of v2_viswin_satellite_simulation:                  *)
(*   src/bbu/bbu_leo.py            ImageReassembler, majority_vote_bytes   *)
(*   src/common/rf_channel_leo.py  propagate, _corrupt_base64_payload      *)
(*   src/satelllite/satellite_leo.py  send_image_if_needed and the threads *)
(*   src/common/raw_to_image.py    decode_one_frame                        *)
(*                                                                         *)
(* A Python dict is a TLA+ function whose DOMAIN is its key set; a dict    *)
(* whose iteration order matters (reps) is a sequence of key/value pairs   *)
(* in insertion order.  bytes are sequences over 0..255, base64 text is a  *)
(* sequence over 0..64: 0..63 index the alphabet "A-Za-z0-9+/", 64 is "=". *)
(* Optional values (None or a value) are the empty or the one-element      *)
(* sequence.                                                               *)
(***************************************************************************)
EXTENDS Integers, Sequences, FiniteSets, TLC

VARIABLES
    \* ---- ImageReassembler (bbu_leo.py) ----
    frames,      \* self.frames: frame_id -> FrameState
    now,         \* time.time(), in whole seconds
    res,         \* what the last push returned: <<>> is None, <<t>> a tuple
    lastPkt,     \* the datagram of the last push, <<>> before the first
    doneSt,      \* the FrameState the last completion was computed from
    completed,   \* frame_id -> number of completion tuples returned so far
    npush,       \* number of push calls made
    \* ---- rf_channel_leo.py module globals ----
    _in_fade,
    _fade_remaining,
    \* ---- satellite_leo.py: send_image_if_needed / telemetry_sender ----
    tx,          \* the transmitter's locals and position
    sent,        \* what the last propagate call of the sender gave sock.sendto
    chan,        \* the last propagate call: its input, its output, the fade it is in
    net,         \* datagrams sent and not yet received by tm_receiver
    \* ---- concurrent callers ----
    thr,         \* the threads inside propagate: position and locals
    pushers,     \* the threads inside push: position and locals
    lock,        \* ImageReassembler.lock: its holder, <<>> when free
    lin,         \* the pushes applied one at a time, in the order the lock was taken
    \* ---- bbu_leo.py: tm_receiver, and raw_to_image.py ----
    rx,          \* the receive loop: what it published and reported
    codec,       \* one decode_one_frame call: its arguments and its outcome
    \* ---- orbit_leo.py: DEFAULT_ORBIT ----
    orbit        \* the link state get_state() returns at this moment

vars == <<frames, now, res, lastPkt, doneSt, completed, npush, _in_fade, _fade_remaining,
          tx, sent, chan, net, thr, pushers, lock, lin, rx, codec, orbit>>

reasmVars == <<frames, now, res, lastPkt, doneSt, completed, npush>>
fadeVars  == <<_in_fade, _fade_remaining>>
txVars    == <<tx, sent, chan>>
netVars   == <<net, orbit>>
concVars  == <<thr, pushers, lock, lin>>
rxVars    == <<rx, codec>>

None == <<>>
Some(v) == <<v>>
The(o) == o[1]

Min(a, b) == IF a <= b THEN a ELSE b

(***************************************************************************)
(* base64 (the codec of base64.b64encode / base64.b64decode(validate=False))*)
(***************************************************************************)
PAD == 64

\* base64.b64encode: 3 bytes -> 4 characters, the tail padded with "=".
RECURSIVE B64Encode(_)
B64Encode(b) ==
    IF Len(b) = 0 THEN <<>>
    ELSE IF Len(b) = 1 THEN
        << b[1] \div 4, (b[1] % 4) * 16, PAD, PAD >>
    ELSE IF Len(b) = 2 THEN
        << b[1] \div 4, (b[1] % 4) * 16 + (b[2] \div 16), (b[2] % 16) * 4, PAD >>
    ELSE
        << b[1] \div 4, (b[1] % 4) * 16 + (b[2] \div 16),
           (b[2] % 16) * 4 + (b[3] \div 64), b[3] % 64 >>
        \o B64Encode(SubSeq(b, 4, Len(b)))

\* binascii.a2b_base64 in non-strict mode, character i of s onwards.
\* quad: position in the current 4-character group; left: the bits not yet
\* emitted; pads: "=" seen since the last data character (counted only when
\* quad >= 2).  The result is [ok |-> TRUE, data |-> bytes] or ok |-> FALSE
\* (binascii.Error).
RECURSIVE B64Scan(_, _, _, _, _, _)
B64Scan(s, i, quad, left, pads, out) ==
    IF i > Len(s) THEN
        IF quad # 0 THEN [ok |-> FALSE, data |-> <<>>]
        ELSE [ok |-> TRUE, data |-> out]
    ELSE IF s[i] = PAD THEN
        IF quad >= 2 /\ quad + pads + 1 >= 4
        THEN [ok |-> TRUE, data |-> out]
        ELSE B64Scan(s, i + 1, quad, left,
                     IF quad >= 2 THEN pads + 1 ELSE pads, out)
    ELSE IF quad = 0 THEN B64Scan(s, i + 1, 1, s[i], 0, out)
    ELSE IF quad = 1 THEN
        B64Scan(s, i + 1, 2, s[i] % 16, 0, Append(out, left * 4 + (s[i] \div 16)))
    ELSE IF quad = 2 THEN
        B64Scan(s, i + 1, 3, s[i] % 4, 0, Append(out, left * 16 + (s[i] \div 4)))
    ELSE
        B64Scan(s, i + 1, 0, 0, 0, Append(out, left * 64 + s[i]))

B64Decode(s) == B64Scan(s, 1, 0, 0, 0, <<>>)

(***************************************************************************)
(* majority_vote_bytes                                                     *)
(***************************************************************************)
\* min(len(c) for c in copies)
RECURSIVE MinLen(_)
MinLen(copies) ==
    IF Len(copies) = 1 THEN Len(copies[1])
    ELSE Min(Len(copies[1]), MinLen(Tail(copies)))

\* freq[b] after the loop over the copies: how many copies hold b at byte i
Freq(copies, i, b) == Cardinality({ j \in 1..Len(copies) : copies[j][i] = b })

\* max(freq.items(), key=lambda x: x[1])[0]: freq is filled in the order of the
\* copies, and max returns the first item of the largest count, so the byte is
\* the one of the earliest copy whose byte has the largest count.
VoteByteFirstMax(copies, i) ==
    LET best == CHOOSE j \in 1..Len(copies) :
                  /\ \A k \in 1..Len(copies) :
                        Freq(copies, i, copies[k][i]) <= Freq(copies, i, copies[j][i])
                  /\ \A k \in 1..(j - 1) :
                        Freq(copies, i, copies[k][i]) < Freq(copies, i, copies[j][i])
    IN copies[best][i]

VoteByte(copies, i) == VoteByteFirstMax(copies, i)

majority_vote_bytes(copies) ==
    IF Len(copies) = 0 THEN <<>>
    ELSE LET m == MinLen(copies)
             cut == [j \in 1..Len(copies) |-> SubSeq(copies[j], 1, m)]
         IN IF Len(cut) = 1 THEN cut[1]
            ELSE [i \in 1..m |-> VoteByte(cut, i)]

(***************************************************************************)
(* ImageReassembler                                                        *)
(***************************************************************************)
EmptyDict == <<>>

\* d[key] = v for a dict whose order does not matter
DictSet(d, key, v) == [k \in DOMAIN d \cup {key} |-> IF k = key THEN v ELSE d[k]]

\* del d[key]
DictDel(d, key) == [k \in DOMAIN d \ {key} |-> d[k]]

\* pkt.get(key, default)
Get(pkt, key, default) == IF key \in DOMAIN pkt THEN pkt[key] ELSE default

\* a store that leaves an existing replica as it is
RepsSetKeepFirst(reps, rep, data) ==
    IF \E j \in 1..Len(reps) : reps[j].rep = rep
    THEN reps
    ELSE Append(reps, [rep |-> rep, data |-> data])

\* reps[rep] = data on an insertion-ordered dict: an existing key keeps its
\* place, a new key goes last
RepsSet(reps, rep, data) ==
    IF \E j \in 1..Len(reps) : reps[j].rep = rep
    THEN [j \in 1..Len(reps) |->
            IF reps[j].rep = rep THEN [rep |-> rep, data |-> data] ELSE reps[j]]
    ELSE Append(reps, [rep |-> rep, data |-> data])

\* list(reps_dict.values())
RepsValues(reps) == [j \in 1..Len(reps) |-> reps[j].data]

\* a try block that does not decode the payload
ParseOkKeysOnly(pkt) ==
    /\ "frame_id" \in DOMAIN pkt
    /\ "chunk_idx" \in DOMAIN pkt
    /\ "payload_b64" \in DOMAIN pkt

\* the try block of push: pkt["frame_id"], pkt["chunk_idx"], pkt["payload_b64"]
\* raise KeyError when absent and b64decode raises on undecodable text
ParseOk(pkt) ==
    /\ "frame_id" \in DOMAIN pkt
    /\ "chunk_idx" \in DOMAIN pkt
    /\ "payload_b64" \in DOMAIN pkt
    /\ B64Decode(pkt.payload_b64).ok

\* frames.setdefault(frame_id, ...), chunks.setdefault(idx, ...), reps[rep] = data
StoreReplica(fs, frame_id, idx, rep, data, t) ==
    LET st == IF frame_id \in DOMAIN fs THEN fs[frame_id]
              ELSE [chunks |-> EmptyDict, last_idx |-> None, t0 |-> t]
        ch == IF idx \in DOMAIN st.chunks THEN st.chunks[idx]
              ELSE [reps |-> <<>>, t0 |-> t]
        ch2 == [ch EXCEPT !.reps = RepsSet(ch.reps, rep, data)]
    IN DictSet(fs, frame_id, [st EXCEPT !.chunks = DictSet(st.chunks, idx, ch2)])

\* if last: st["last_idx"] = idx
LastIdxOverwrite(st, last, idx) ==
    IF last THEN [st EXCEPT !.last_idx = Some(idx)] ELSE st

SetLastIdx(st, last, idx) == LastIdxOverwrite(st, last, idx)

\* st["last_idx"] is not None and all(i in st["chunks"] for i in range(last_idx + 1))
CompleteAllChunks(st) ==
    /\ st.last_idx # None
    /\ \A i \in 0..The(st.last_idx) : i \in DOMAIN st.chunks

\* a completeness test whose range runs one index too far
CompleteOffByOne(st) ==
    /\ st.last_idx # None
    /\ \A i \in 0..(The(st.last_idx) + 1) : i \in DOMAIN st.chunks

IsComplete(st) == CompleteAllChunks(st)

\* a noisy output that is always the first replica stored
NoisyFirstStored(reps) == reps[1].data

\* noisy = reps_dict[0] if 0 in reps_dict else next(iter(reps_dict.values()))
NoisyOf(reps) ==
    IF \E j \in 1..Len(reps) : reps[j].rep = 0
    THEN reps[CHOOSE j \in 1..Len(reps) : reps[j].rep = 0].data
    ELSE reps[1].data

FixedOf(reps) == majority_vote_bytes(RepsValues(reps))

\* b"".join(parts) for the chunks i..hi
RECURSIVE JoinNoisy(_, _, _)
JoinNoisy(st, i, hi) ==
    IF i > hi THEN <<>>
    ELSE NoisyOf(st.chunks[i].reps) \o JoinNoisy(st, i + 1, hi)

RECURSIVE JoinFixed(_, _, _)
JoinFixed(st, i, hi) ==
    IF i > hi THEN <<>>
    ELSE FixedOf(st.chunks[i].reps) \o JoinFixed(st, i + 1, hi)

\* the tuple push returns for a complete st
Completion(frame_id, st) ==
    [frame_id  |-> frame_id,
     raw_noisy |-> JoinNoisy(st, 0, The(st.last_idx)),
     raw_fixed |-> JoinFixed(st, 0, The(st.last_idx))]

\* the table after the locked section of push for a parsed datagram, before
\* the completeness test
Stored(fs, pkt, t) ==
    LET frame_id == pkt.frame_id
        idx == pkt.chunk_idx
        fs1 == StoreReplica(fs, frame_id, idx, Get(pkt, "rep", 0),
                            B64Decode(pkt.payload_b64).data, t)
    IN [fs1 EXCEPT ![frame_id] = SetLastIdx(@, Get(pkt, "last", FALSE), idx)]

(***************************************************************************)
(* rf_channel_leo.py                                                       *)
(***************************************************************************)
BURST_FADE_LENGTH_PKTS == 25

Max(a, b) == IF a >= b THEN a ELSE b

\* _link_quality_from_elev for whole degrees, as q * 80 (elev_mask = 10.0)
LinkQuality80(elev_deg) ==
    IF elev_deg <= 10 THEN 0
    ELSE Max(0, Min(80, elev_deg - 10))

\* random.random() < p can come out true iff p > 0, and p < 1 throughout:
\* fade_start = 0.0015 * (1 + 3(1-q)) > 0 for every q
\* loss_p = 0.08 * (1-q)**1.6 (x 1.15 uplink) > 0 iff q < 1
\* ber_p  = 0.02 * (1-q)**2.0 (x 1.10 uplink) > 0 iff q < 1
\* dup_p  = 0.002 * (1 + (1-q)) > 0 for every q
LossPossible(q80) == q80 < 80
BerPossible(q80) == q80 < 80

\* flips = max(1, int(n * 0.002 * severity)), severity = 0.3 + (1-q) * 0.7
FlipCount(n, q80) == Max(1, (2 * n * (800 - 7 * q80)) \div 800000)

\* the characters random.choice(alphabet) is taken to return
FlipChars == {0, 32}

\* s_list[i] = c for i = random.randrange(n), `flips` times over
RECURSIVE FlipTexts(_, _)
FlipTexts(s, flips) ==
    IF flips = 0 THEN {s}
    ELSE UNION { FlipTexts([s EXCEPT ![i] = c], flips - 1) :
                    i \in 1..Len(s), c \in FlipChars }

\* _corrupt_base64_payload(packet, severity): the dicts packet can be after it
CorruptBase64Payload(packet, q80) ==
    IF "payload_b64" \notin DOMAIN packet \/ packet.payload_b64 = <<>>
    THEN {packet}
    ELSE { [packet EXCEPT !.payload_b64 = t] :
              t \in FlipTexts(packet.payload_b64,
                              FlipCount(Len(packet.payload_b64), q80)) }

\* a fade that ends one call early
FadeOverEarly(rem) == rem <= 1

\* a fade that lasts one call longer
FadeOverLate(rem) == rem < 0

\* _fade_remaining <= 0 after the decrement
FadeOver(rem) == rem <= 0

\* out = packet: the caller's dict is the one the call wrote to
InputAfterAliased(packet, out) == out

\* out = dict(packet) makes out a new dict: what the caller's packet is after
\* the call, given the out the call built
InputAfter(packet, out) == packet

\* propagate(packet, elev_deg, direction) called with the globals at
\* (inFade, rem): the set of results it can have.  out is the return value
\* (None or the delivered dict), packet the caller's dict after the call,
\* in_fade / fade_remaining the globals after it, started whether this call
\* started a fade.
Propagate(packet, elev_deg, direction, inFade, rem) ==
    LET q80 == LinkQuality80(elev_deg)
        pkt_type == Get(packet, "type", "")
        dropped(f, n, st) ==
            [out |-> None, packet |-> packet, in_fade |-> f, fade_remaining |-> n,
             started |-> st]
        withFlag == { [k \in DOMAIN packet \cup {"corrupted"} |->
                          IF k = "corrupted" THEN c ELSE packet[k]] :
                      c \in IF BerPossible(q80) THEN BOOLEAN ELSE {FALSE} }
        hit == UNION { IF o.corrupted /\ pkt_type = "IMG"
                       THEN CorruptBase64Payload(o, q80) ELSE {o} : o \in withFlag }
        outs == { [k \in DOMAIN o \cup {"duplicated"} |->
                      IF k = "duplicated" THEN d ELSE o[k]] :
                  o \in hit, d \in BOOLEAN }
    IN IF inFade
       THEN { dropped(~FadeOver(rem - 1), rem - 1, FALSE) }
       ELSE { dropped(TRUE, BURST_FADE_LENGTH_PKTS, TRUE) }
            \cup (IF LossPossible(q80) THEN { dropped(inFade, rem, FALSE) } ELSE {})
            \cup { [out |-> Some(o), packet |-> InputAfter(packet, o),
                    in_fade |-> inFade, fade_remaining |-> rem, started |-> FALSE] :
                   o \in outs }

(***************************************************************************)
(* Inputs of the sequential reassembler specification                      *)
(***************************************************************************)
MaxPushes == 3

FrameIds == {0, 1}
ChunkIdxs == {0, 1, 2}
Reps == {0, 1}

\* base64 texts that decode to one byte each, and one ("A" alone) that
\* b64decode rejects
Payloads == { B64Encode(<<1>>), B64Encode(<<2>>) }
BadPayload == <<0>>

ImgPkt(f, i, l, r, p) ==
    [type |-> "IMG", frame_id |-> f, chunk_idx |-> i, last |-> l, rep |-> r,
     payload_b64 |-> p]

\* a datagram as the transmitter builds it: no "rep" key
ImgPktNoRep(f, i, l, p) ==
    [type |-> "IMG", frame_id |-> f, chunk_idx |-> i, last |-> l, payload_b64 |-> p]

\* datagrams the try block of push rejects: a key missing, undecodable text
Malformed ==
    { [type |-> "IMG", chunk_idx |-> 0, last |-> TRUE, payload_b64 |-> B64Encode(<<1>>)],
      [type |-> "IMG", frame_id |-> 0, last |-> TRUE, payload_b64 |-> B64Encode(<<1>>)],
      [type |-> "IMG", frame_id |-> 0, chunk_idx |-> 0, last |-> TRUE],
      ImgPkt(0, 0, TRUE, 0, BadPayload) }

\* the datagrams pushed: every combination for frame 0, a few for frame 1
Datagrams ==
    { ImgPkt(0, i, l, r, p) :
        i \in ChunkIdxs, l \in BOOLEAN, r \in Reps, p \in Payloads }
    \cup { ImgPktNoRep(0, i, l, B64Encode(<<1>>)) : i \in ChunkIdxs, l \in BOOLEAN }
    \cup { ImgPkt(1, i, l, 0, B64Encode(<<2>>)) : i \in {0, 1}, l \in BOOLEAN }
    \cup Malformed

(***************************************************************************)
(* ImageReassembler.push, one call                                         *)
(***************************************************************************)
\* push as one step: the table after it, its return value, and the
\* FrameState a completion was computed from
PushOutcome(fs, pkt, t) ==
    IF ~ParseOk(pkt)
    THEN [frames |-> fs, res |-> None, st |-> None]
    ELSE LET fs1 == Stored(fs, pkt, t)
             st == fs1[pkt.frame_id]
         IN IF IsComplete(st)
            THEN [frames |-> DictDel(fs1, pkt.frame_id),
                  res |-> Some(Completion(pkt.frame_id, st)), st |-> Some(st)]
            ELSE [frames |-> fs1, res |-> None, st |-> None]

Push(pkt) ==
    LET o == PushOutcome(frames, pkt, now)
    IN /\ npush' = npush + 1
       /\ lastPkt' = Some(pkt)
       /\ frames' = o.frames
       /\ res' = o.res
       /\ doneSt' = IF o.res # None THEN o.st ELSE doneSt
       /\ completed' = IF o.res # None
                       THEN [completed EXCEPT ![pkt.frame_id] = @ + 1]
                       ELSE completed
       /\ UNCHANGED now

ReasmInit ==
    /\ frames = EmptyDict
    /\ now = 0
    /\ res = None
    /\ lastPkt = None
    /\ doneSt = None
    /\ completed = [f \in FrameIds |-> 0]
    /\ npush = 0

\* the variables a specification does not use keep these values
FadeIdle == _in_fade = FALSE /\ _fade_remaining = 0
TxIdle   == tx = <<>> /\ sent = <<>> /\ chan = <<>>
NetIdle  == net = {} /\ orbit = <<>>
ConcIdle == thr = <<>> /\ pushers = <<>> /\ lock = None /\ lin = <<>>
RxIdle   == rx = <<>> /\ codec = <<>>

DoPush ==
    /\ npush < MaxPushes
    /\ \E pkt \in Datagrams : Push(pkt)
    /\ UNCHANGED <<fadeVars, txVars, netVars, concVars, rxVars>>

Init == ReasmInit /\ FadeIdle /\ TxIdle /\ NetIdle /\ ConcIdle /\ RxIdle

Next == DoPush

Spec == Init /\ [][Next]_vars

(***************************************************************************)
(* satellite_leo.py: send_image_if_needed inside telemetry_sender, and the *)
(* propagate call of telecommand_executor                                  *)
(***************************************************************************)
\* FRAME_BYTES and IMG_CHUNK_BYTES scaled down (6291456 and 1200 in the
\* source); the last chunk is the short one
FRAME_BYTES == 3
IMG_CHUNK_BYTES == 2
IMG_REPEAT == 3
SEND_ONLY_FIRST_FRAME == TRUE
MAX_PKTS_PER_STEP == 2000

\* largest number of TM packets the downlink rate allows per step
MaxRate == 2

\* the link states DEFAULT_ORBIT.get_state() is taken to return
Elevs == {5, 50, 90}
Rates == 0..MaxRate

\* the bytes of RAW_FILE_PATH: one whole frame and a partial one after it
RawFile == [i \in 1..(FRAME_BYTES + 1) |-> (i * 37) % 256]

\* _iter_frames_from_raw_file yields frame k iff FRAME_BYTES whole bytes are there
HasFrame(raw, k) == (k + 1) * FRAME_BYTES <= Len(raw)
FrameOf(raw, k) == SubSeq(raw, k * FRAME_BYTES + 1, (k + 1) * FRAME_BYTES)

\* a chunk count that leaves out a short final chunk
TotalChunksFloor(frame) == Len(frame) \div IMG_CHUNK_BYTES

\* len([frame[i:i + IMG_CHUNK_BYTES] for i in range(0, len(frame), IMG_CHUNK_BYTES)])
TotalChunks(frame) == (Len(frame) + IMG_CHUNK_BYTES - 1) \div IMG_CHUNK_BYTES

\* chunks[idx]
ChunkOf(frame, idx) ==
    SubSeq(frame, idx * IMG_CHUNK_BYTES + 1,
           Min((idx + 1) * IMG_CHUNK_BYTES, Len(frame)))

\* a last flag that is one chunk off
IsLastOffByOne(idx, total) == idx = total

\* "last": (idx == total - 1)
IsLast(idx, total) == idx = total - 1

\* the pkt dict built once per chunk
BuildPkt(frame_id, idx, frame) ==
    [type |-> "IMG", frame_id |-> frame_id, chunk_idx |-> idx,
     last |-> IsLast(idx, TotalChunks(frame)),
     payload_b64 |-> B64Encode(ChunkOf(frame, idx)), corrupted |-> FALSE]

\* the tm_packet dict, without seq, ts, elev_deg and doppler_hz
TmPacket == [type |-> "TM", visible |-> TRUE, corrupted |-> FALSE,
             payload_len |-> 256, duplicated |-> FALSE]

\* the pkt dict of telecommand_executor, without cmd and ts
TcPacket == [type |-> "TC", corrupted |-> FALSE]

\* max_pkts of telemetry_sender, the rate counted in packets per step
MaxPkts(rate) == Min(rate, MAX_PKTS_PER_STEP)

TxInit ==
    /\ tx = [pc |-> "tick", visible |-> FALSE, elev |-> 5, rate |-> 0,
             frame_id |-> 0, idx |-> 0, r |-> 0, pkt |-> TcPacket,
             built |-> {}, dirty |-> FALSE, last_copy |-> 0, tm_left |-> 0,
             tried |-> [k \in (0..(TotalChunks(FrameOf(RawFile, 0)) - 1))
                                \X (0..(IMG_REPEAT - 1)) |-> 0],
             skipped |-> FALSE,
             _img_sent_once |-> FALSE]
    /\ sent = None
    /\ chan = [inp |-> None, after |-> None, out |-> None, dir |-> "",
               faded |-> FALSE, since |-> 0]

\* one propagate call with result o: the globals and what is observed of it
ChanCall(packet, direction, o) ==
    /\ _in_fade' = o.in_fade
    /\ _fade_remaining' = o.fade_remaining
    /\ chan' = [inp |-> Some(packet), after |-> Some(o.packet), out |-> o.out,
                dir |-> direction,
                faded |-> chan.faded \/ o.started,
                since |-> IF o.started THEN 0
                          ELSE IF chan.faded
                               THEN Min(chan.since + 1, BURST_FADE_LENGTH_PKTS + 1)
                               ELSE 0]

\* a send_image_if_needed that does not look at _img_sent_once
NoImageEveryTick(visible, rate, exists) ==
    \/ ~visible \/ rate <= 0
    \/ ~exists
    \/ ~HasFrame(RawFile, 0)

\* send_image_if_needed returns at once: not visible or no rate, no raw file,
\* frame 0 already sent, or the file holds no whole frame
NoImage(visible, rate, exists) ==
    \/ ~visible \/ rate <= 0
    \/ ~exists
    \/ (SEND_ONLY_FIRST_FRAME /\ tx._img_sent_once)
    \/ ~HasFrame(RawFile, 0)

\* the TM part of one telemetry_sender iteration starts (or the loop sleeps)
ToTm(t) ==
    IF ~t.visible \/ t.rate <= 0 \/ MaxPkts(t.rate) <= 0
    THEN [t EXCEPT !.pc = "tick"]
    ELSE [t EXCEPT !.pc = "tm", !.tm_left = MaxPkts(t.rate)]

\* telemetry_sender: st = DEFAULT_ORBIT.get_state(); no image is due
TickNoImage ==
    /\ tx.pc = "tick"
    /\ \E visible \in BOOLEAN, elev \in Elevs, rate \in Rates, exists \in BOOLEAN :
          /\ NoImage(visible, rate, exists)
          /\ tx' = ToTm([tx EXCEPT !.visible = visible, !.elev = elev, !.rate = rate,
                                   !.skipped = @ \/ (visible /\ rate > 0 /\ exists
                                                       /\ tx._img_sent_once)])
    /\ UNCHANGED <<sent, chan, fadeVars, reasmVars, netVars, concVars, rxVars>>

\* telemetry_sender: get_state, then send_image_if_needed enters its loops
\* with frame 0 and builds the pkt of chunk 0
TickImage ==
    /\ tx.pc = "tick"
    /\ \E visible \in BOOLEAN, elev \in Elevs, rate \in Rates :
          /\ ~NoImage(visible, rate, TRUE)
          /\ tx' = [tx EXCEPT !.pc = "img", !.visible = visible, !.elev = elev,
                              !.rate = rate, !.frame_id = 0, !.idx = 0, !.r = 0,
                              !.pkt = BuildPkt(0, 0, FrameOf(RawFile, 0)),
                              !.built = {0}, !.dirty = FALSE]
    /\ UNCHANGED <<sent, chan, fadeVars, reasmVars, netVars, concVars, rxVars>>

\* the transmitter after copy r of chunk idx went through propagate, pkt
\* being the caller's dict after the call
AfterCopy(t, pkt, hit) ==
    LET frame == FrameOf(RawFile, t.frame_id)
        t1 == [t EXCEPT !.last_copy = t.r, !.tried[<<t.idx, t.r>>] = @ + 1]
    IN IF t.r + 1 < IMG_REPEAT
       THEN [t1 EXCEPT !.r = t.r + 1, !.pkt = pkt, !.dirty = t.dirty \/ hit]
       ELSE IF t.idx + 1 < TotalChunks(frame)
       THEN [t1 EXCEPT !.idx = t.idx + 1, !.r = 0,
                       !.pkt = BuildPkt(t.frame_id, t.idx + 1, frame),
                       !.built = t.built \cup {t.idx + 1}, !.dirty = FALSE]
       ELSE \* IMG TX done: SEND_ONLY_FIRST_FRAME sets the flag and breaks
            ToTm([t1 EXCEPT !._img_sent_once = TRUE, !.pkt = pkt])

\* one pass of "for _r in range(IMG_REPEAT)": propagate(pkt) and, unless it
\* returned None, sock.sendto(json.dumps(out))
ImgStep ==
    /\ tx.pc = "img"
    /\ \E o \in Propagate(tx.pkt, tx.elev, "downlink", _in_fade, _fade_remaining) :
          /\ ChanCall(tx.pkt, "downlink", o)
          /\ sent' = o.out
          /\ tx' = AfterCopy(tx, o.packet,
                             o.out # None /\ The(o.out).payload_b64 # tx.pkt.payload_b64)
    /\ UNCHANGED <<reasmVars, netVars, concVars, rxVars>>

\* one pass of "for _ in range(max_pkts)": propagate(tm_packet) and sendto
TmStep ==
    /\ tx.pc = "tm"
    /\ \E o \in Propagate(TmPacket, tx.elev, "downlink", _in_fade, _fade_remaining) :
          /\ ChanCall(TmPacket, "downlink", o)
          /\ sent' = o.out
          /\ tx' = IF tx.tm_left > 1 THEN [tx EXCEPT !.tm_left = tx.tm_left - 1]
                   ELSE [tx EXCEPT !.tm_left = 0, !.pc = "tick"]
    /\ UNCHANGED <<reasmVars, netVars, concVars, rxVars>>

\* telecommand_executor, visible and with a command dequeued: its propagate
\* call, made between two calls of telemetry_sender
TcStep ==
    /\ \E elev \in Elevs :
          \E o \in Propagate(TcPacket, elev, "uplink", _in_fade, _fade_remaining) :
             ChanCall(TcPacket, "uplink", o)
    /\ UNCHANGED <<tx, sent, reasmVars, netVars, concVars, rxVars>>

NextTx == TickNoImage \/ TickImage \/ ImgStep \/ TmStep \/ TcStep

InitTx == ReasmInit /\ FadeIdle /\ TxInit /\ NetIdle /\ ConcIdle /\ RxIdle

SpecTx == InitTx /\ [][NextTx]_vars

(***************************************************************************)
(* A replicated frame on its way to the reassembler (SpecDeliver): frame 0 *)
(* of the raw file, IMG_REPEAT copies of every chunk, copy r carrying      *)
(* "rep": r, each copy as propagate can deliver it at 5 degrees elevation, *)
(* at most one copy of a chunk corrupted.  tm_receiver takes the datagrams *)
(* off the socket in any order and pushes them.                            *)
(***************************************************************************)
WithRep(pkt, r) ==
    [k \in DOMAIN pkt \cup {"rep"} |-> IF k = "rep" THEN r ELSE pkt[k]]

\* the forms in which propagate can deliver packet
DeliveredForms(packet) ==
    { The(o.out) : o \in { x \in Propagate(packet, 5, "downlink", FALSE, 0) :
                             x.out # None /\ ~The(x.out).duplicated } }

CleanForm(packet) ==
    CHOOSE d \in DeliveredForms(packet) : ~d.corrupted

Copy(i, r) == WithRep(BuildPkt(0, i, FrameOf(RawFile, 0)), r)

DeliverChunks == 0..(TotalChunks(FrameOf(RawFile, 0)) - 1)
DeliverReps == 0..(IMG_REPEAT - 1)

\* the copies of chunk i in flight: all clean, or exactly one corrupted
ChunkInFlight(i) ==
    { { CleanForm(Copy(i, r)) : r \in DeliverReps } }
    \cup UNION { { { IF r = bad THEN d ELSE CleanForm(Copy(i, r)) : r \in DeliverReps } :
                     d \in { x \in DeliveredForms(Copy(i, bad)) : x.corrupted } } :
                   bad \in DeliverReps }

RECURSIVE FramesInFlight(_)
FramesInFlight(i) ==
    IF i \notin DeliverChunks THEN { {} }
    ELSE { a \cup b : a \in ChunkInFlight(i), b \in FramesInFlight(i + 1) }

\* tm_receiver: recvfrom returns a datagram in flight, pkt_type is "IMG",
\* img_reasm.push(pkt)
Deliver ==
    /\ \E d \in net :
          /\ Push(d)
          /\ net' = net \ {d}
    /\ UNCHANGED <<orbit, fadeVars, txVars, concVars, rxVars>>

InitDeliver ==
    /\ ReasmInit /\ FadeIdle /\ TxIdle /\ ConcIdle /\ RxIdle
    /\ net \in FramesInFlight(0)
    /\ orbit = <<>>

NextDeliver == Deliver

SpecDeliver == InitDeliver /\ [][NextDeliver]_vars

\* C3: with k >= 3 replicas of each chunk transmitted and, at every byte
\* position, fewer than ceil(k/2) of them corrupted, the raw_fixed push
\* returns is the clean frame payload, for every arrival order.
C3_FixedIsClean ==
    res # None => The(res).raw_fixed = FrameOf(RawFile, 0)

(***************************************************************************)
(* Claims on the sequential reassembler (Spec)                             *)
(***************************************************************************)

\* C1: over any sequence of push calls, push returns a completion tuple for a
\* given frame_id at most once.
C1_AtMostOnce == \A f \in FrameIds : completed[f] <= 1

\* what a push of the parsed datagram pkt must have done, told from the table
\* before it
C2_After(pkt) ==
    LET f == pkt.frame_id
        had == f \in DOMAIN frames
        held == (IF had THEN { i \in DOMAIN frames[f].chunks :
                                 Len(frames[f].chunks[i].reps) >= 1 }
                 ELSE {}) \cup {pkt.chunk_idx}
        lastidx == IF Get(pkt, "last", FALSE) THEN Some(pkt.chunk_idx)
                   ELSE IF had THEN frames[f].last_idx ELSE None
        complete == lastidx # None /\ \A i \in 0..The(lastidx) : i \in held
    IN /\ (res' # None) <=> complete
       /\ complete => /\ f \notin DOMAIN frames'
                      /\ The(res').frame_id = f
       /\ ~complete =>
            /\ f \in DOMAIN frames'
            /\ pkt.chunk_idx \in DOMAIN frames'[f].chunks
            /\ \E j \in 1..Len(frames'[f].chunks[pkt.chunk_idx].reps) :
                  frames'[f].chunks[pkt.chunk_idx].reps[j] =
                      [rep |-> Get(pkt, "rep", 0),
                       data |-> B64Decode(pkt.payload_b64).data]

\* C2: a successfully parsed push returns a completion iff, with its replica
\* stored, last_idx is set and every index in 0..last_idx holds at least one
\* replica; then the frame_id is gone from the table, and otherwise push
\* returns None and the FrameState, with the replica in it, stays.
C2_CompletionIff ==
    [][(npush' = npush + 1 /\ ParseOk(The(lastPkt'))) => C2_After(The(lastPkt'))]_vars

\* a two-chunk frame has completed and left the table, while another frame
\* that is not complete is still in it
C2_Witness ==
    /\ res # None
    /\ The(doneSt).last_idx = Some(1)
    /\ DOMAIN The(doneSt).chunks = {0, 1}
    /\ The(res).frame_id \notin DOMAIN frames
    /\ frames # EmptyDict

\* C4: while a FrameState exists, last_idx, once set, never changes value,
\* whatever datagrams are pushed later.
C4_LastIdxStable ==
    [][\A f \in DOMAIN frames \cap DOMAIN frames' :
          frames[f].last_idx # None => frames'[f].last_idx = frames[f].last_idx]_vars

\* the table without the t0 stamps: frames, chunks, replicas, last_idx
C11_Table(fs) ==
    [f \in DOMAIN fs |->
        [chunks |-> [i \in DOMAIN fs[f].chunks |-> fs[f].chunks[i].reps],
         last_idx |-> fs[f].last_idx]]

\* C11: in every reachable state and for every datagram d, pushing d twice
\* in a row leaves the same table (frames, chunks, replicas, last_idx) as
\* pushing d once.  lastPkt is the datagram just pushed, frames the table
\* after that one push.
C11_Idempotent ==
    lastPkt # None =>
        C11_Table(PushOutcome(frames, The(lastPkt), now).frames) = C11_Table(frames)

\* the replica slots <<frame_id, chunk_idx, rep>> of a table, and what one holds
C12_Slots(fs) ==
    UNION { UNION { { <<f, i, fs[f].chunks[i].reps[j].rep>> :
                        j \in 1..Len(fs[f].chunks[i].reps) } :
                    i \in DOMAIN fs[f].chunks } :
            f \in DOMAIN fs }

C12_Held(fs, k) ==
    LET reps == fs[k[1]].chunks[k[2]].reps
    IN reps[CHOOSE j \in 1..Len(reps) : reps[j].rep = k[3]].data

\* C12: a parsed push of (frame_id, chunk_idx, rep) leaves, while the
\* FrameState exists, its decoded payload in that replica slot, and changes
\* no other replica slot of a frame that is still in the table; so a slot
\* always holds the payload of the most recent push to it.
C12_LastWriterWins ==
    [][(npush' = npush + 1 /\ "frame_id" \in DOMAIN The(lastPkt')
          /\ "chunk_idx" \in DOMAIN The(lastPkt')
          /\ "payload_b64" \in DOMAIN The(lastPkt')
          /\ B64Decode(The(lastPkt').payload_b64).ok) =>
        LET pkt == The(lastPkt')
            k == <<pkt.frame_id, pkt.chunk_idx, Get(pkt, "rep", 0)>>
        IN /\ pkt.frame_id \in DOMAIN frames' =>
                /\ k \in C12_Slots(frames')
                /\ C12_Held(frames', k) = B64Decode(pkt.payload_b64).data
           /\ \A s \in C12_Slots(frames) \ {k} :
                 s[1] \in DOMAIN frames' =>
                    /\ s \in C12_Slots(frames')
                    /\ C12_Held(frames', s) = C12_Held(frames, s)
           /\ C12_Slots(frames') \subseteq C12_Slots(frames) \cup {k}]_vars

\* the last push wrote replica 0 of chunk 0 of frame 0, a slot that was
\* filled before replica 1 of the chunk arrived: it overwrote it, and
\* replica 1 is as it was
C12_Witness ==
    /\ lastPkt = Some(ImgPkt(0, 0, FALSE, 0, B64Encode(<<2>>)))
    /\ 0 \in DOMAIN frames
    /\ 0 \in DOMAIN frames[0].chunks
    /\ frames[0].chunks[0].reps =
          << [rep |-> 0, data |-> <<2>>], [rep |-> 1, data |-> <<1>>] >>

\* a datagram the try block of push raises on
C14_Unparsable(pkt) ==
    \/ "frame_id" \notin DOMAIN pkt
    \/ "chunk_idx" \notin DOMAIN pkt
    \/ "payload_b64" \notin DOMAIN pkt
    \/ ~B64Decode(pkt.payload_b64).ok

\* C14: a push of a datagram with a field missing or a payload that does
\* not decode returns None and leaves the table, and with it every replica
\* stored and every completion still to come, as it was.
C14_MalformedDiscarded ==
    [][(npush' = npush + 1 /\ C14_Unparsable(The(lastPkt'))) =>
          /\ res' = None
          /\ frames' = frames
          /\ completed' = completed]_vars

\* an undecodable replica of chunk 0 of frame 0 was discarded while the
\* frame was being reassembled
C14_Witness ==
    /\ lastPkt = Some(ImgPkt(0, 0, TRUE, 0, BadPayload))
    /\ res = None
    /\ 0 \in DOMAIN frames
    /\ npush = 2

(***************************************************************************)
(* Claims on the transmitter and the channel, calls in sequence (SpecTx)   *)
(***************************************************************************)

\* C5: for every chunk the transmitter emits datagrams whose rep values are
\* 0..IMG_REPEAT-1, one per copy, so that the reassembler stores the copies
\* of a chunk under distinct replica ids: the datagram of copy r carries
\* rep = r.
C5_RepPerCopy ==
    (sent # None /\ The(sent).type = "IMG") =>
        /\ "rep" \in DOMAIN The(sent)
        /\ The(sent).rep = tx.last_copy

\* ceil(FRAME_BYTES / IMG_CHUNK_BYTES)
C6_Total == (FRAME_BYTES + IMG_CHUNK_BYTES - 1) \div IMG_CHUNK_BYTES

\* C6: in the frame the transmitter emits, chunk indices are dense
\* 0..total-1, and last=true is carried by every emitted replica of chunk
\* total-1 and by no replica of another chunk.
C6_LastOnFinalChunk ==
    /\ (sent # None /\ The(sent).type = "IMG") =>
          /\ The(sent).chunk_idx \in 0..(C6_Total - 1)
          /\ The(sent).last = (The(sent).chunk_idx = C6_Total - 1)
    /\ tx.pc = "img" =>
          /\ tx.built = 0..tx.idx
          /\ tx.idx <= C6_Total - 1
          /\ tx.pkt.chunk_idx = tx.idx
          /\ tx.pkt.last = (tx.idx = C6_Total - 1)
    /\ tx._img_sent_once => tx.built = 0..(C6_Total - 1)

\* a replica of the final chunk of a frame of several chunks has been sent
C6_Witness ==
    /\ sent # None
    /\ The(sent).type = "IMG"
    /\ The(sent).last
    /\ The(sent).chunk_idx >= 1
    /\ tx._img_sent_once

\* C7: every replica of a chunk enters the channel with the payload built for
\* the chunk: propagate does not change its input packet, and its output
\* differs from the input only in corrupted and duplicated and, for an IMG
\* that is corrupted, in payload_b64.
C7_InputUntouched ==
    /\ chan.after = chan.inp
    /\ tx.pc = "img" =>
          /\ tx.pkt.payload_b64 =
                B64Encode(ChunkOf(FrameOf(RawFile, tx.frame_id), tx.idx))
          /\ tx.pkt.corrupted = FALSE
          /\ "duplicated" \notin DOMAIN tx.pkt
    /\ chan.out # None =>
          LET inp == The(chan.inp)
              out == The(chan.out)
          IN /\ DOMAIN out = DOMAIN inp \cup {"corrupted", "duplicated"}
             /\ \A k \in DOMAIN inp \ {"corrupted", "duplicated", "payload_b64"} :
                   out[k] = inp[k]
             /\ "payload_b64" \in DOMAIN inp =>
                   \/ out.payload_b64 = inp.payload_b64
                   \/ inp.type = "IMG" /\ out.corrupted

\* an earlier copy of the chunk went out with its payload changed, and a later
\* copy of the same chunk was delivered with the payload as built
C7_Witness ==
    /\ tx.pc = "img"
    /\ tx.dirty
    /\ tx.r = 2
    /\ chan.out # None
    /\ The(chan.out).type = "IMG"
    /\ ~The(chan.out).corrupted
    /\ The(chan.out).payload_b64 =
          B64Encode(ChunkOf(FrameOf(RawFile, tx.frame_id), tx.idx))

\* C8: once a propagate call starts a fade, each of the next
\* BURST_FADE_LENGTH_PKTS calls returns None, whatever their elevation,
\* direction or packet type.
C8_FadePersists ==
    (chan.faded /\ chan.since \in 1..BURST_FADE_LENGTH_PKTS) => chan.out = None

\* the last call of a fade: an uplink call, dropped, after which the fade is over
C8_Witness ==
    /\ chan.faded
    /\ chan.since = BURST_FADE_LENGTH_PKTS
    /\ chan.dir = "uplink"
    /\ chan.out = None
    /\ ~_in_fade

\* C16: with SEND_ONLY_FIRST_FRAME set the transmitter only emits IMG
\* datagrams of frame 0, puts each (chunk_idx, copy) of it through the
\* channel at most once over the whole run, and once the frame is done no
\* later tick goes back into the image loops.
C16_FirstFrameOnce ==
    /\ [](/\ (sent # None /\ The(sent).type = "IMG") => The(sent).frame_id = 0
          /\ \A k \in DOMAIN tx.tried : tx.tried[k] <= 1
          /\ tx._img_sent_once => tx.pc # "img")
    /\ [][tx._img_sent_once =>
             /\ tx'.tried = tx.tried
             /\ tx'._img_sent_once
             /\ (sent' # None /\ The(sent').type = "IMG") => sent' = sent]_vars

\* the frame is done, every copy of every chunk went out once, and a later
\* tick with the satellite visible found nothing to send
C16_Witness ==
    /\ tx._img_sent_once
    /\ tx.skipped
    /\ \A k \in DOMAIN tx.tried : tx.tried[k] = 1

\* ------------------------------------------------------------------
\* The transmitter with a socket or a raw file that can fail (SpecTxFail).
\* Neither send_image_if_needed nor telemetry_sender has a try statement:
\* an exception raised by sock.sendto or by the file read leaves both and
\* ends the thread telemetry_sender runs in (tx.pc = "dead").
\* ------------------------------------------------------------------

\* sock.sendto(...) raises OSError for a copy propagate delivered
ImgSendFails ==
    /\ tx.pc = "img"
    /\ \E o \in Propagate(tx.pkt, tx.elev, "downlink", _in_fade, _fade_remaining) :
          /\ o.out # None
          /\ ChanCall(tx.pkt, "downlink", o)
          /\ sent' = None
          /\ tx' = [tx EXCEPT !.pc = "dead", !.pkt = o.packet]
    /\ UNCHANGED <<reasmVars, netVars, concVars, rxVars>>

\* open(path, "rb") or f.read(FRAME_BYTES) raises OSError when the frame is due
RawReadFails ==
    /\ tx.pc = "tick"
    /\ \E visible \in BOOLEAN, elev \in Elevs, rate \in Rates :
          /\ ~NoImage(visible, rate, TRUE)
          /\ tx' = [tx EXCEPT !.pc = "dead", !.visible = visible, !.elev = elev,
                              !.rate = rate]
    /\ UNCHANGED <<sent, chan, fadeVars, reasmVars, netVars, concVars, rxVars>>

NextTxFail ==
    \/ TickNoImage \/ TickImage \/ ImgStep \/ TmStep \/ TcStep
    \/ ImgSendFails \/ RawReadFails

SpecTxFail == InitTx /\ [][NextTxFail]_vars

\* C17: a socket send or raw-file read failure during image transmission
\* stops the frame in progress only: telemetry_sender keeps running and
\* comes to its next link-state tick.
C17_SenderSurvives == tx.pc # "dead"

\* ------------------------------------------------------------------
\* Two threads of the satellite process inside propagate.  The module
\* globals _in_fade and _fade_remaining are read and written without a lock,
\* and a thread switch can fall between any two loads and stores of them.
\* ------------------------------------------------------------------

FadeThreads == {"telemetry_sender", "telecommand_executor"}

\* how many propagate calls each thread makes
MaxFadeCalls == 3

FadeThreadsInit ==
    thr = [t \in FadeThreads |-> [pc |-> "idle", tmp |-> 0, calls |-> 0]]

\* a thread enters propagate: the sleep and the link quality touch no global
FadeCall(t) ==
    /\ thr[t].pc = "idle"
    /\ thr[t].calls < MaxFadeCalls
    /\ thr' = [thr EXCEPT ![t].pc = "test", ![t].calls = @ + 1]
    /\ UNCHANGED <<_in_fade, _fade_remaining>>

\* if _in_fade:
FadeTest(t) ==
    /\ thr[t].pc = "test"
    /\ thr' = [thr EXCEPT ![t].pc = IF _in_fade THEN "load" ELSE "draw"]
    /\ UNCHANGED <<_in_fade, _fade_remaining>>

\* _fade_remaining -= 1, the load
FadeLoad(t) ==
    /\ thr[t].pc = "load"
    /\ thr' = [thr EXCEPT ![t].pc = "store", ![t].tmp = _fade_remaining]
    /\ UNCHANGED <<_in_fade, _fade_remaining>>

\* _fade_remaining -= 1, the store
FadeStore(t) ==
    /\ thr[t].pc = "store"
    /\ _fade_remaining' = thr[t].tmp - 1
    /\ thr' = [thr EXCEPT ![t].pc = "check"]
    /\ UNCHANGED _in_fade

\* if _fade_remaining <= 0, then return None
FadeCheck(t) ==
    /\ thr[t].pc = "check"
    /\ thr' = [thr EXCEPT ![t].pc = IF FadeOver(_fade_remaining) THEN "clear" ELSE "idle"]
    /\ UNCHANGED <<_in_fade, _fade_remaining>>

\* _in_fade = False, then return None
FadeClear(t) ==
    /\ thr[t].pc = "clear"
    /\ _in_fade' = FALSE
    /\ thr' = [thr EXCEPT ![t].pc = "idle"]
    /\ UNCHANGED _fade_remaining

\* if random.random() < fade_start: the draw either starts a fade or lets the
\* call go on to the loss and bit-error draws, which touch no global
FadeDraw(t) ==
    /\ thr[t].pc = "draw"
    /\ \E start \in BOOLEAN :
          thr' = [thr EXCEPT ![t].pc = IF start THEN "begin" ELSE "idle"]
    /\ UNCHANGED <<_in_fade, _fade_remaining>>

\* _in_fade = True
FadeBegin(t) ==
    /\ thr[t].pc = "begin"
    /\ _in_fade' = TRUE
    /\ thr' = [thr EXCEPT ![t].pc = "arm"]
    /\ UNCHANGED _fade_remaining

\* _fade_remaining = BURST_FADE_LENGTH_PKTS, then return None
FadeArm(t) ==
    /\ thr[t].pc = "arm"
    /\ _fade_remaining' = BURST_FADE_LENGTH_PKTS
    /\ thr' = [thr EXCEPT ![t].pc = "idle"]
    /\ UNCHANGED _in_fade

FadeRest == UNCHANGED <<reasmVars, txVars, netVars, pushers, lock, lin, rxVars>>

ThreadCall  == \E t \in FadeThreads : FadeCall(t) /\ FadeRest
ThreadTest  == \E t \in FadeThreads : FadeTest(t) /\ FadeRest
ThreadLoad  == \E t \in FadeThreads : FadeLoad(t) /\ FadeRest
ThreadStore == \E t \in FadeThreads : FadeStore(t) /\ FadeRest
ThreadCheck == \E t \in FadeThreads : FadeCheck(t) /\ FadeRest
ThreadClear == \E t \in FadeThreads : FadeClear(t) /\ FadeRest
ThreadDraw  == \E t \in FadeThreads : FadeDraw(t) /\ FadeRest
ThreadBegin == \E t \in FadeThreads : FadeBegin(t) /\ FadeRest
ThreadArm   == \E t \in FadeThreads : FadeArm(t) /\ FadeRest

InitFade ==
    /\ ReasmInit /\ TxIdle /\ NetIdle /\ RxIdle
    /\ _in_fade = FALSE /\ _fade_remaining = 0
    /\ FadeThreadsInit
    /\ pushers = <<>> /\ lock = None /\ lin = <<>>

NextFade ==
    \/ ThreadCall \/ ThreadTest \/ ThreadLoad \/ ThreadStore \/ ThreadCheck
    \/ ThreadClear \/ ThreadDraw \/ ThreadBegin \/ ThreadArm

SpecFade == InitFade /\ [][NextFade]_vars

\* C9: whenever both threads are between propagate calls, _in_fade is true
\* exactly when _fade_remaining > 0, in every interleaving of their calls.
C9_FadeConsistent ==
    (\A t \in FadeThreads : thr[t].pc = "idle") =>
        (_in_fade <=> _fade_remaining > 0)

\* ------------------------------------------------------------------
\* Several threads inside ImageReassembler.push on one reassembler.  The
\* try block works on locals; the rest runs under "with self.lock", one
\* statement at a time.
\* ------------------------------------------------------------------

PushThreads == {1, 2}

\* how many push calls the threads make together
MaxConcPushes == 3

ConcDatagrams ==
    { ImgPkt(0, i, l, r, p) :
        i \in {0, 1}, l \in BOOLEAN, r \in Reps, p \in Payloads }
    \cup { ImgPkt(0, 0, TRUE, 0, BadPayload) }

PushIdle == [pc |-> "idle", pkt |-> None, st |-> None, ret |-> None, exp |-> None]

PushThreadsInit == pushers = [t \in PushThreads |-> PushIdle]

\* a lock that never makes a caller wait
LockFreeAlways(l) == TRUE

\* threading.Lock: acquire goes through only when nobody holds it
LockFree(l) == l = None

\* del self.frames[frame_id] on a key that is gone
KeyError == [error |-> "KeyError"]

\* the FrameState the thread's local st refers to: the one in the table
\* while the frame is there, else the object as the thread last saw it
StOf(t) ==
    LET f == The(pushers[t].pkt).frame_id
    IN IF f \in DOMAIN frames THEN frames[f] ELSE The(pushers[t].st)

\* the call and its try block; a rejected datagram returns None at once
PushStart(t) ==
    /\ pushers[t].pc = "idle"
    /\ npush < MaxConcPushes
    /\ npush' = npush + 1
    /\ \E pkt \in ConcDatagrams :
          pushers' = [pushers EXCEPT ![t] =
                        [PushIdle EXCEPT !.pc = IF ParseOk(pkt) THEN "wait" ELSE "done",
                                         !.pkt = Some(pkt)]]
    /\ UNCHANGED <<frames, lock, lin, completed>>

\* with self.lock: entered.  The sequential table takes the whole push here.
PushAcquire(t) ==
    /\ pushers[t].pc = "wait"
    /\ LockFree(lock)
    /\ lock' = Some(t)
    /\ LET o == PushOutcome(lin, The(pushers[t].pkt), now)
       IN /\ lin' = o.frames
          /\ pushers' = [pushers EXCEPT ![t].pc = "store", ![t].exp = o.res]
    /\ UNCHANGED <<frames, npush, completed>>

\* st = frames.setdefault(...), ch = chunks.setdefault(...), ch["reps"][rep] = data
PushStore(t) ==
    /\ pushers[t].pc = "store"
    /\ LET pkt == The(pushers[t].pkt)
           fs1 == StoreReplica(frames, pkt.frame_id, pkt.chunk_idx, Get(pkt, "rep", 0),
                               B64Decode(pkt.payload_b64).data, now)
       IN /\ frames' = fs1
          /\ pushers' = [pushers EXCEPT ![t].pc = "last",
                                        ![t].st = Some(fs1[pkt.frame_id])]
    /\ UNCHANGED <<lock, lin, npush, completed>>

\* if last: st["last_idx"] = idx
PushLast(t) ==
    /\ pushers[t].pc = "last"
    /\ LET pkt == The(pushers[t].pkt)
           st2 == SetLastIdx(StOf(t), Get(pkt, "last", FALSE), pkt.chunk_idx)
       IN /\ frames' = IF pkt.frame_id \in DOMAIN frames
                       THEN [frames EXCEPT ![pkt.frame_id] = st2]
                       ELSE frames
          /\ pushers' = [pushers EXCEPT ![t].pc = "test", ![t].st = Some(st2)]
    /\ UNCHANGED <<lock, lin, npush, completed>>

\* the two early returns of the locked section, else the outputs are built
PushTest(t) ==
    /\ pushers[t].pc = "test"
    /\ LET pkt == The(pushers[t].pkt)
           st == StOf(t)
       IN IF IsComplete(st)
          THEN /\ pushers' = [pushers EXCEPT ![t].pc = "del",
                                 ![t].ret = Some(Completion(pkt.frame_id, st))]
               /\ UNCHANGED lock
          ELSE /\ pushers' = [pushers EXCEPT ![t].pc = "done", ![t].ret = None]
               /\ lock' = None
    /\ UNCHANGED <<frames, lin, npush, completed>>

\* del self.frames[frame_id]; return frame_id, raw_noisy, raw_fixed
PushDel(t) ==
    /\ pushers[t].pc = "del"
    /\ LET f == The(pushers[t].pkt).frame_id
       IN IF f \in DOMAIN frames
          THEN /\ frames' = DictDel(frames, f)
               /\ completed' = [completed EXCEPT ![f] = @ + 1]
               /\ pushers' = [pushers EXCEPT ![t].pc = "done"]
          ELSE /\ pushers' = [pushers EXCEPT ![t].pc = "done", ![t].ret = Some(KeyError)]
               /\ UNCHANGED <<frames, completed>>
    /\ lock' = None
    /\ UNCHANGED <<lin, npush>>

\* the caller has the return value and is free to call again
PushReturn(t) ==
    /\ pushers[t].pc = "done"
    /\ pushers' = [pushers EXCEPT ![t] = PushIdle]
    /\ UNCHANGED <<frames, lock, lin, npush, completed>>

PushRest == UNCHANGED <<now, res, lastPkt, doneSt, fadeVars, txVars, netVars, thr, rxVars>>

CallerStart   == \E t \in PushThreads : PushStart(t) /\ PushRest
CallerAcquire == \E t \in PushThreads : PushAcquire(t) /\ PushRest
CallerStore   == \E t \in PushThreads : PushStore(t) /\ PushRest
CallerLast    == \E t \in PushThreads : PushLast(t) /\ PushRest
CallerTest    == \E t \in PushThreads : PushTest(t) /\ PushRest
CallerDel     == \E t \in PushThreads : PushDel(t) /\ PushRest
CallerReturn  == \E t \in PushThreads : PushReturn(t) /\ PushRest

InitConcPush ==
    /\ ReasmInit /\ FadeIdle /\ TxIdle /\ NetIdle /\ RxIdle
    /\ thr = <<>>
    /\ PushThreadsInit
    /\ lock = None
    /\ lin = EmptyDict

NextConcPush ==
    \/ CallerStart \/ CallerAcquire \/ CallerStore \/ CallerLast
    \/ CallerTest \/ CallerDel \/ CallerReturn

SpecConcPush == InitConcPush /\ [][NextConcPush]_vars

\* C10: concurrent pushes behave as the same pushes made one at a time in
\* the order the lock was taken: whenever the lock is free the table is the
\* sequential table, every return value is the sequential return value, and
\* no two callers are completing the same frame at once.
C10_Linearizable ==
    /\ lock = None => frames = lin
    /\ \A t \in PushThreads :
          pushers[t].pc = "done" => pushers[t].ret = pushers[t].exp
    /\ \A t, u \in PushThreads :
          (t # u /\ pushers[t].pc = "del" /\ pushers[u].pc = "del")
             => The(pushers[t].pkt).frame_id # The(pushers[u].pkt).frame_id

\* one caller returns a completed frame while the other, carrying a replica
\* of the same frame, waits for the lock it is about to get
C10_Witness ==
    \E t, u \in PushThreads :
        /\ t # u
        /\ pushers[t].pc = "done"
        /\ pushers[t].ret # None
        /\ pushers[u].pc = "wait"
        /\ The(pushers[u].pkt).frame_id = The(pushers[t].pkt).frame_id
        /\ lock = None
        /\ completed[The(pushers[t].pkt).frame_id] = 1

\* ------------------------------------------------------------------
\* ImageReassembler.cleanup between pushes, with the clock moving
\* (SpecSweep).  rx keeps the last operation, the frame ids cleanup
\* dropped and, of those, the ones pushed again since.
\* ------------------------------------------------------------------

\* the clock stops here
MaxTime == 2

\* how many pushes are made between the sweeps
MaxSweepPushes == 2

\* the max_age_s values cleanup is called with
MaxAges == {0, 1, 2}

SweepDatagrams ==
    { ImgPkt(f, i, l, 0, B64Encode(<<1>>)) : f \in FrameIds, i \in {0, 1}, l \in BOOLEAN }
    \cup { ImgPkt(0, 0, TRUE, 0, BadPayload) }

\* a sweep that also drops the frames whose age equals max_age_s
ExpiredInclusive(st, t, max_age_s) == (t - st.t0) >= max_age_s

\* (now - st.get("t0", now)) > max_age_s; every FrameState has a t0
Expired(st, t, max_age_s) == (t - st.t0) > max_age_s

\* drop = [fid for fid, st in self.frames.items() if ...]
Drop(fs, t, max_age_s) == { fid \in DOMAIN fs : Expired(fs[fid], t, max_age_s) }

\* for fid in drop: del self.frames[fid]
Cleanup(fs, t, max_age_s) ==
    [fid \in DOMAIN fs \ Drop(fs, t, max_age_s) |-> fs[fid]]

SweepInit ==
    rx = [op |-> "", max_age_s |-> 0, evicted |-> {}, reborn |-> {}]

\* img_reasm.push(pkt)
SweepPush ==
    /\ npush < MaxSweepPushes
    /\ \E pkt \in SweepDatagrams :
          /\ Push(pkt)
          /\ rx' = [rx EXCEPT !.op = "push",
                      !.evicted = IF ParseOk(pkt) THEN @ \ {pkt.frame_id} ELSE @,
                      !.reborn = IF ParseOk(pkt) /\ pkt.frame_id \in rx.evicted
                                 THEN @ \cup {pkt.frame_id} ELSE @]
    /\ UNCHANGED <<codec, fadeVars, txVars, netVars, concVars>>

\* img_reasm.cleanup(max_age_s)
SweepCleanup ==
    /\ \E max_age_s \in MaxAges :
          /\ frames' = Cleanup(frames, now, max_age_s)
          /\ rx' = [rx EXCEPT !.op = "cleanup", !.max_age_s = max_age_s,
                      !.evicted = @ \cup Drop(frames, now, max_age_s),
                      !.reborn = @ \ Drop(frames, now, max_age_s)]
    /\ UNCHANGED <<now, res, lastPkt, doneSt, completed, npush, codec,
                   fadeVars, txVars, netVars, concVars>>

\* time.time() moves on
SweepTick ==
    /\ now < MaxTime
    /\ now' = now + 1
    /\ rx' = [rx EXCEPT !.op = "tick"]
    /\ UNCHANGED <<frames, res, lastPkt, doneSt, completed, npush, codec,
                   fadeVars, txVars, netVars, concVars>>

InitSweep ==
    /\ ReasmInit /\ FadeIdle /\ TxIdle /\ NetIdle /\ ConcIdle
    /\ SweepInit
    /\ codec = <<>>

NextSweep == SweepPush \/ SweepCleanup \/ SweepTick

SpecSweep == InitSweep /\ [][NextSweep]_vars

\* a FrameState made by one push of pkt at time t and nothing else
C13_Fresh(pkt, t) ==
    [chunks |-> (pkt.chunk_idx :>
                    [reps |-> << [rep |-> Get(pkt, "rep", 0),
                                  data |-> B64Decode(pkt.payload_b64).data] >>,
                     t0 |-> t]),
     last_idx |-> IF Get(pkt, "last", FALSE) THEN Some(pkt.chunk_idx) ELSE None,
     t0 |-> t]

\* C13: cleanup(max_age_s) removes exactly the frames whose age since t0
\* exceeds max_age_s and leaves every other frame as it was; a push of a
\* frame_id cleanup dropped makes a FrameState that holds that push's
\* replica and last flag and nothing of the dropped one.
C13_Eviction ==
    [][/\ rx'.op = "cleanup" =>
             /\ DOMAIN frames' = { f \in DOMAIN frames : now - frames[f].t0 <= rx'.max_age_s }
             /\ \A f \in DOMAIN frames' : frames'[f] = frames[f]
       /\ (rx'.op = "push" /\ npush' = npush + 1 /\ ParseOk(The(lastPkt'))
             /\ The(lastPkt').frame_id \in rx.evicted) =>
             LET pkt == The(lastPkt')
             IN /\ pkt.frame_id \notin DOMAIN frames
                /\ pkt.frame_id \in DOMAIN frames' =>
                      frames'[pkt.frame_id] = C13_Fresh(pkt, now)
                /\ pkt.frame_id \notin DOMAIN frames' =>
                      /\ res' # None
                      /\ doneSt' = Some(C13_Fresh(pkt, now))]_vars

\* frame 0 was dropped by a sweep and has been pushed again since: it holds
\* chunk 0 alone and no last_idx, and its t0 is the time of that push
C13_Witness ==
    /\ 0 \in rx.reborn
    /\ 0 \in DOMAIN frames
    /\ frames[0].t0 > 0
    /\ DOMAIN frames[0].chunks = {0}
    /\ frames[0].last_idx = None

\* ------------------------------------------------------------------
\* The image path end to end (SpecLink): send_image_if_needed, the
\* channel and the receiver.  What sock.sendto is given goes, in order, to
\* tm_receiver, which pushes the IMG datagrams into the reassembler.  rx.perfect says that every copy of
\* every chunk so far came out of propagate with its payload as built;
\* rx.completions are the tuples push has returned.
\* ------------------------------------------------------------------

\* datagrams the socket holds before sendto has to wait
MaxInFlight == 2

LinkInit ==
    /\ net = <<>>
    /\ orbit = <<>>
    /\ rx = [perfect |-> TRUE, completions |-> <<>>]
    /\ codec = <<>>

\* the pass is overhead: elev_deg 90, where the link quality is 1 and only a
\* fade can take a datagram
LinkElev == 90

\* telemetry_sender: get_state during the pass, then send_image_if_needed
\* enters its loops with frame 0 and builds the pkt of chunk 0
LinkTick ==
    /\ tx.pc = "tick"
    /\ \E rate \in Rates :
          /\ ~NoImage(TRUE, rate, TRUE)
          /\ tx' = [tx EXCEPT !.pc = "img", !.visible = TRUE, !.elev = LinkElev,
                              !.rate = rate, !.frame_id = 0, !.idx = 0, !.r = 0,
                              !.pkt = BuildPkt(0, 0, FrameOf(RawFile, 0)),
                              !.built = {0}, !.dirty = FALSE]
    /\ UNCHANGED <<sent, chan, fadeVars, reasmVars, netVars, concVars, rxVars>>

\* sock.sendto(json.dumps(out))
SendTo(out) == IF out = None THEN net ELSE Append(net, The(out))

\* one pass of "for _r in range(IMG_REPEAT)", the datagram going to the socket
LinkImg ==
    /\ tx.pc = "img"
    /\ Len(net) < MaxInFlight
    /\ \E o \in Propagate(tx.pkt, tx.elev, "downlink", _in_fade, _fade_remaining) :
          /\ ChanCall(tx.pkt, "downlink", o)
          /\ sent' = o.out
          /\ tx' = AfterCopy(tx, o.packet,
                             o.out # None /\ The(o.out).payload_b64 # tx.pkt.payload_b64)
          /\ net' = SendTo(o.out)
          /\ rx' = [rx EXCEPT !.perfect =
                       /\ @
                       /\ o.out # None
                       /\ The(o.out).payload_b64 = tx.pkt.payload_b64]
    /\ UNCHANGED <<orbit, reasmVars, concVars, codec>>

\* tm_receiver: recvfrom, and img_reasm.push(pkt) when pkt_type is "IMG"
LinkRecv ==
    /\ net # <<>>
    /\ net' = Tail(net)
    /\ IF Head(net).type = "IMG"
       THEN /\ Push(Head(net))
            /\ rx' = [rx EXCEPT !.completions =
                         IF PushOutcome(frames, Head(net), now).res # None
                         THEN Append(@, The(PushOutcome(frames, Head(net), now).res))
                         ELSE @]
       ELSE UNCHANGED <<reasmVars, rx>>
    /\ UNCHANGED <<orbit, codec, fadeVars, txVars, concVars>>

InitLink == ReasmInit /\ FadeIdle /\ TxInit /\ ConcIdle /\ LinkInit

NextLink == LinkTick \/ LinkImg \/ LinkRecv

SpecLink == InitLink /\ [][NextLink]_vars

HEADER == <<240, 48, 240, 128>>

\* 3-byte groups in a line: 1024 in the source (3072 bytes, 2048 pixels)
LinePairs == 2

\* rows of an image: 2048 in the source
Height == 2

LINE_BYTES == 3 * LinePairs
LINE_PIXELS == 2 * LinePairs

\* astype(np.uint16): the arithmetic below is done in 16 bits
U16(x) == x % 65536

\* an unpacking that forgets the & 0x0F mask of p0
Unpack12NoMask(data) ==
    [k \in 1..(2 * (Len(data) \div 3)) |->
        LET g == (k - 1) \div 2
            b0 == data[3 * g + 1]
            b1 == data[3 * g + 2]
            b2 == data[3 * g + 3]
        IN IF k % 2 = 1 THEN U16(b0 + U16(b1 * 256))
           ELSE U16(U16(b2 * 16) + (b1 \div 16))]

\* [b0,b1,b2] -> p0 = b0 | ((b1 & 0x0F) << 8), p1 = (b2 << 4) | (b1 >> 4),
\* p0 and p1 filling the even and the odd places; the operands of each |
\* have no bit in common, so it is a sum
Unpack12(data) ==
    [k \in 1..(2 * (Len(data) \div 3)) |->
        LET g == (k - 1) \div 2
            b0 == data[3 * g + 1]
            b1 == data[3 * g + 2]
            b2 == data[3 * g + 3]
        IN IF k % 2 = 1 THEN U16(b0 + U16((b1 % 16) * 256))
           ELSE U16(U16(b2 * 16) + (b1 \div 16))]

\* HEADER is at the 0-based offset idx of raw
HeaderAt(raw, idx) ==
    /\ idx + Len(HEADER) <= Len(raw)
    /\ \A j \in 1..Len(HEADER) : raw[idx + j] = HEADER[j]

\* raw.find(HEADER, start)
Find(raw, start) ==
    IF \E idx \in start..Len(raw) : HeaderAt(raw, idx)
    THEN CHOOSE idx \in start..Len(raw) :
            /\ HeaderAt(raw, idx)
            /\ \A j \in start..(idx - 1) : ~HeaderAt(raw, j)
    ELSE -1

\* start = idx + 1, whether or not a block was taken at idx
NextStart(idx, taken) == idx + 1

\* the while loop of find_lines_by_header
RECURSIVE FindLines(_, _, _, _)
FindLines(raw, start, lines, max_lines) ==
    LET idx == Find(raw, start)
        data_start == idx + Len(HEADER)
        data_end == data_start + LINE_BYTES
    IN IF idx < 0 THEN lines
       ELSE IF data_end <= Len(raw)
            THEN LET lines2 == Append(lines, SubSeq(raw, data_start + 1, data_end))
                 IN IF Len(lines2) >= max_lines THEN lines2
                    ELSE FindLines(raw, NextStart(idx, TRUE), lines2, max_lines)
            ELSE FindLines(raw, NextStart(idx, FALSE), lines, max_lines)

find_lines_by_header(raw, max_lines) == FindLines(raw, 0, <<>>, max_lines)

ValueError == [kind |-> "ValueError"]

\* frame_from_headered_raw: None (<<>>) when the blocks are too few;
\* img[i, :] = ... raises ValueError when width is not the line's pixel count
frame_from_headered_raw(raw, width, height) ==
    LET blocks == find_lines_by_header(raw, height)
    IN IF Len(blocks) < height THEN None
       ELSE IF width # LINE_PIXELS THEN Some(ValueError)
       ELSE Some([kind |-> "image", mode |-> "header",
                  rows |-> [i \in 1..height |-> Unpack12(blocks[i])]])

\* a length test that also refuses an input of exactly the bytes needed
TooShortInclusive(n, need) == n <= need

\* if len(raw) < need
TooShort(n, need) == n < need

\* frame_from_continuous_packed: reshape(-1, 3) and px[0::2] = p0 raise
\* ValueError unless need is a whole number of 3-byte groups
frame_from_continuous_packed(raw, width, height) ==
    LET need == (width * height * 12) \div 8
    IN IF TooShort(Len(raw), need) THEN ValueError
       ELSE IF need % 3 # 0 THEN ValueError
       ELSE LET px == Unpack12(SubSeq(raw, 1, need))
            IN [kind |-> "image", mode |-> "continuous",
                rows |-> [i \in 1..height |->
                            [j \in 1..width |-> px[(i - 1) * width + j]]]]

decode_one_frame(raw, width, height) ==
    LET img == frame_from_headered_raw(raw, width, height)
    IN IF img # None THEN The(img)
       ELSE frame_from_continuous_packed(raw, width, height)

\* ------------------------------------------------------------------
\* One decode_one_frame call on a raw buffer (SpecCodec), with the width
\* of a line and Height rows, as tm_receiver calls it with 2048 and 2048.
\* ------------------------------------------------------------------

\* a line of data bytes without a marker in it
PlainLine(k) == [i \in 1..LINE_BYTES |-> 16 * k + i]

\* a line of data bytes with the four marker bytes at offset pos
MarkedLine(pos) ==
    [i \in 1..LINE_BYTES |->
        IF i > pos /\ i <= pos + Len(HEADER) THEN HEADER[i - pos] ELSE 7]

Lines ==
    { PlainLine(1), PlainLine(2) }
    \cup { MarkedLine(pos) : pos \in 0..(LINE_BYTES - Len(HEADER)) }

\* n blocks, each the marker and one of the lines ls
RECURSIVE Blocks(_, _)
Blocks(n, ls) ==
    IF n = 0 THEN { <<>> }
    ELSE { HEADER \o l \o rest : l \in ls, rest \in Blocks(n - 1, ls) }

\* the raw streams of exactly Height blocks
HeaderStreams == Blocks(Height, Lines)

\* a stream without markers, two bytes longer than a frame
PackedStream == [i \in 1..((LINE_PIXELS * Height * 12) \div 8 + 2) |-> (5 * i) % 200]

\* the buffers decoded: the block streams, streams of a block more, the
\* packed stream, and everything these start with
RawInputs ==
    UNION { { SubSeq(r, 1, n) : n \in 0..Len(r) } :
              r \in HeaderStreams
                    \cup Blocks(Height + 1, {PlainLine(1), PlainLine(2)})
                    \cup { PackedStream } }

CodecInit ==
    codec \in { [raw |-> r, width |-> LINE_PIXELS, height |-> Height, out |-> None] :
                  r \in RawInputs }

\* img = decode_one_frame(raw, 2048, 2048)
Decode ==
    /\ codec.out = None
    /\ codec' = [codec EXCEPT !.out =
                    Some(decode_one_frame(codec.raw, codec.width, codec.height))]
    /\ UNCHANGED <<rx, reasmVars, fadeVars, txVars, netVars, concVars>>

InitCodec ==
    /\ ReasmInit /\ FadeIdle /\ TxIdle /\ NetIdle /\ ConcIdle
    /\ rx = <<>>
    /\ CodecInit

NextCodec == Decode

SpecCodec == InitCodec /\ [][NextCodec]_vars

\* the data bytes of block i (from 1) of a stream of marker-and-line blocks
C19_Block(raw, i) ==
    SubSeq(raw, (i - 1) * (Len(HEADER) + LINE_BYTES) + Len(HEADER) + 1,
                i * (Len(HEADER) + LINE_BYTES))

\* C19: for a raw stream of Height blocks, each the marker followed by a
\* line of arbitrary bytes, decode returns an image whose row i is the
\* 12-bit unpacking of the bytes of block i, for every i.
C19_HeaderRows ==
    (codec.out # None /\ codec.raw \in HeaderStreams) =>
        /\ The(codec.out).kind = "image"
        /\ \A i \in 1..Height :
              The(codec.out).rows[i] = Unpack12(C19_Block(codec.raw, i))

\* the offsets of raw where the marker is found with a whole line after it
C20_Hits(raw) ==
    { idx \in 0..Len(raw) :
        /\ idx + Len(HEADER) + LINE_BYTES <= Len(raw)
        /\ \A j \in 1..Len(HEADER) : raw[idx + j] = HEADER[j] }

C20_Need(width, height) == (width * height * 12) \div 8

\* C20: decode_one_frame decodes in header mode iff at least height marker
\* hits with a whole line after them are found, and in continuous mode
\* otherwise; in continuous mode an input shorter than width*height*12/8
\* bytes gives ValueError and never an image, and a longer one gives the
\* height x width image unpacked from its first width*height*12/8 bytes.
C20_ModeSelection ==
    codec.out # None =>
        LET out == The(codec.out)
            raw == codec.raw
            need == C20_Need(codec.width, codec.height)
            px == Unpack12(SubSeq(raw, 1, need))
        IN IF Cardinality(C20_Hits(raw)) >= codec.height
           THEN out.kind = "image" /\ out.mode = "header"
           ELSE IF Len(raw) < need
           THEN out.kind = "ValueError"
           ELSE /\ out.kind = "image"
                /\ out.mode = "continuous"
                /\ Len(out.rows) = codec.height
                /\ \A i \in 1..codec.height :
                      /\ Len(out.rows[i]) = codec.width
                      /\ \A j \in 1..codec.width :
                            out.rows[i][j] = px[(i - 1) * codec.width + j]

\* a buffer of exactly the bytes of one frame, one marker in it and so too
\* few for header mode, decoded in continuous mode
C20_Witness ==
    /\ codec.out # None
    /\ Len(codec.raw) = C20_Need(codec.width, codec.height)
    /\ Cardinality(C20_Hits(codec.raw)) = 1
    /\ The(codec.out).kind = "image"
    /\ The(codec.out).mode = "continuous"

\* ------------------------------------------------------------------
\* tm_receiver, one datagram per step (SpecRx): push, then decode and
\* publish a completed frame, or sweep the table; every other datagram
\* goes to the web history.
\* ------------------------------------------------------------------

MaxRecv == 3

\* img_reasm.cleanup(max_age_s=900.0)
RX_MAX_AGE_S == 900

\* len(telemetry_history) > 5000, len(telemetry_live) > 2000
WEB_HISTORY_MAX == 5000
LIVE_MAX == 2000

\* the time between two datagrams when the clock moves
RxTickStep == RX_MAX_AGE_S \div 2 + 1

\* the bytes of one frame that decode in continuous mode, and its text
FramePayload == B64Encode(SubSeq(PackedStream, 1, (LINE_PIXELS * Height * 12) \div 8))

\* a payload of one byte: a frame made of it is too short to decode
ShortPayload == B64Encode(<<1>>)

\* the datagrams received: one-chunk frames that decode and that do not, a
\* frame of two chunks, an IMG datagram push rejects, a telemetry object,
\* and a text json.loads rejects
RxDatagrams ==
    { ImgPkt(f, 0, TRUE, 0, p) : f \in FrameIds, p \in {FramePayload, ShortPayload} }
    \cup { ImgPkt(0, 0, FALSE, 0, FramePayload),
           ImgPkt(0, 1, TRUE, 0, ShortPayload),
           ImgPkt(0, 0, TRUE, 0, BadPayload),
           [type |-> "TM", time |-> 1],
           [text |-> "not json"] }

\* pkt_type = pkt.get("type"), None when the text is not a JSON object
PktType(d) == IF "type" \in DOMAIN d THEN d.type ELSE "None"

\* lst[:] = lst[-cap:] when it has grown beyond cap
Capped(lst, cap) ==
    IF Len(lst) > cap THEN SubSeq(lst, Len(lst) - cap + 1, Len(lst)) ELSE lst

\* _enqueue_web(msg)
EnqueueWeb(history, msg) == Capped(Append(history, msg), WEB_HISTORY_MAX)

\* a receiver without the except clause: the exception leaves the loop
OnDecodeErrorUncaught(r, frame_id) == [r EXCEPT !.running = FALSE]

\* except Exception as e: print("[BBU] IMG decode failed frame ...")
OnDecodeError(r, frame_id) ==
    [r EXCEPT !.log = Append(@, [ev |-> "failed", frame_id |-> frame_id])]

\* the try block for a completed frame: both decodes, the files, the
\* latest_images update, the print and the IMG2 message
Publish(r, c) ==
    LET r1 == [r EXCEPT !.log = Append(@, [ev |-> "complete", frame_id |-> c.frame_id])]
        img_noisy == decode_one_frame(c.raw_noisy, LINE_PIXELS, Height)
        img_fixed == decode_one_frame(c.raw_fixed, LINE_PIXELS, Height)
    IN IF img_noisy.kind # "image" \/ img_fixed.kind # "image"
       THEN OnDecodeError(r1, c.frame_id)
       ELSE [r1 EXCEPT
               !.files = [f \in DOMAIN @ \cup {c.frame_id} |->
                            [noisy |-> img_noisy, fixed |-> img_fixed]],
               !.latest_images = Some(c.frame_id),
               !.log = Append(@, [ev |-> "saved", frame_id |-> c.frame_id]),
               !.telemetry_history =
                   EnqueueWeb(@, [kind |-> "IMG2", frame_id |-> c.frame_id])]

RxInit ==
    rx = [running |-> TRUE, nrecv |-> 0, files |-> EmptyDict, latest_images |-> None,
          telemetry_history |-> <<>>, telemetry_live |-> <<>>, log |-> <<>>]

\* pkt_type == "IMG": push; a completion is decoded and published, without
\* one the table is swept
RecvImg ==
    /\ rx.running
    /\ rx.nrecv < MaxRecv
    /\ \E d \in RxDatagrams :
          /\ PktType(d) = "IMG"
          /\ LET o == PushOutcome(frames, d, now)
                 r == [rx EXCEPT !.nrecv = @ + 1]
             IN /\ npush' = npush + 1
                /\ lastPkt' = Some(d)
                /\ res' = o.res
                /\ doneSt' = IF o.res # None THEN o.st ELSE doneSt
                /\ completed' = IF o.res # None
                                THEN [completed EXCEPT ![d.frame_id] = @ + 1]
                                ELSE completed
                /\ IF o.res # None
                   THEN /\ frames' = o.frames
                        /\ rx' = Publish(r, The(o.res))
                   ELSE /\ frames' = Cleanup(o.frames, now, RX_MAX_AGE_S)
                        /\ rx' = r
    /\ UNCHANGED <<now, codec, fadeVars, txVars, netVars, concVars>>

\* every other datagram: _enqueue_web(raw_text), and telemetry_live when the
\* satellite is visible
RecvOther ==
    /\ rx.running
    /\ rx.nrecv < MaxRecv
    /\ \E d \in RxDatagrams, visible \in BOOLEAN :
          /\ PktType(d) # "IMG"
          /\ rx' = [rx EXCEPT
                      !.nrecv = @ + 1,
                      !.telemetry_history = EnqueueWeb(@, d),
                      !.telemetry_live =
                          IF visible THEN Capped(Append(@, d), LIVE_MAX) ELSE @]
    /\ UNCHANGED <<codec, reasmVars, fadeVars, txVars, netVars, concVars>>

\* time.time() moves on between two datagrams
RxTick ==
    /\ now < MaxTime * RxTickStep
    /\ now' = now + RxTickStep
    /\ UNCHANGED <<frames, res, lastPkt, doneSt, completed, npush, rxVars,
                   fadeVars, txVars, netVars, concVars>>

InitRx ==
    /\ ReasmInit /\ FadeIdle /\ TxIdle /\ NetIdle /\ ConcIdle
    /\ codec = <<>>
    /\ RxInit

NextRx == RecvImg \/ RecvOther \/ RxTick

SpecRx == InitRx /\ [][NextRx]_vars

\* this step received IMG datagram d and push returned a completion
C18_Completes(d) ==
    /\ PktType(d) = "IMG"
    /\ npush' = npush + 1
    /\ lastPkt' = Some(d)
    /\ res' # None

\* both buffers of the completion c decode to an image
C18_Decodes(c) ==
    /\ decode_one_frame(c.raw_noisy, LINE_PIXELS, Height).kind = "image"
    /\ decode_one_frame(c.raw_fixed, LINE_PIXELS, Height).kind = "image"

\* C18: a decode failure for a completed frame is reported for that frame
\* only. The receive loop never stops; on the step of a failure the table is
\* the one push left, nothing is published and the log gains the failure of
\* that frame alone; every completed frame that decodes is published (files,
\* latest_images, IMG2 message), whatever failed before it.
C18_DecodeFailureContained ==
    /\ [](rx.running)
    /\ [][\A d \in RxDatagrams :
            C18_Completes(d) =>
               LET c == The(res')
                   done == Append(rx.log, [ev |-> "complete", frame_id |-> d.frame_id])
               IN /\ c.frame_id = d.frame_id
                  /\ frames' = PushOutcome(frames, d, now).frames
                  /\ rx'.running
                  /\ IF C18_Decodes(c)
                     THEN /\ rx'.latest_images = Some(d.frame_id)
                          /\ d.frame_id \in DOMAIN rx'.files
                          /\ rx'.log = Append(done, [ev |-> "saved", frame_id |-> d.frame_id])
                          /\ rx'.telemetry_history =
                               Append(rx.telemetry_history,
                                      [kind |-> "IMG2", frame_id |-> d.frame_id])
                     ELSE /\ rx'.latest_images = rx.latest_images
                          /\ rx'.files = rx.files
                          /\ rx'.telemetry_history = rx.telemetry_history
                          /\ rx'.log = Append(done, [ev |-> "failed", frame_id |-> d.frame_id])
         ]_vars

\* a frame failed to decode and a frame completed after it was published
C18_Witness ==
    \E i, j \in 1..Len(rx.log) :
        /\ i < j
        /\ rx.log[i].ev = "failed"
        /\ rx.log[j].ev = "saved"
        /\ rx.latest_images = Some(rx.log[j].frame_id)

\* ------------------------------------------------------------------
\* One unpack_12bit_packed_2048 call on a line (SpecUnpack).
\* ------------------------------------------------------------------

\* unpack_12bit_packed_2048: ValueError unless the line has its 3072 bytes
unpack_12bit_packed_2048(data) ==
    IF Len(data) # LINE_BYTES THEN ValueError
    ELSE [kind |-> "pixels", px |-> Unpack12(data)]

\* bytes around the nibble and the byte boundaries
ByteSamples == {0, 15, 16, 240, 255}

\* the first group of a line: every middle byte, whose nibbles go to two
\* pixels, with sampled outer bytes
FirstGroups == { <<b0, b1, b2>> : b0 \in ByteSamples, b1 \in 0..255, b2 \in ByteSamples }

\* the groups after the first
RestGroups == { <<1, 35, 69>>, <<255, 255, 255>> }

RECURSIVE GroupSeqs(_)
GroupSeqs(n) ==
    IF n = 0 THEN { <<>> }
    ELSE { g \o rest : g \in RestGroups, rest \in GroupSeqs(n - 1) }

\* the lines unpacked, and two buffers that are not a line
UnpackInputs ==
    { g \o rest : g \in FirstGroups, rest \in GroupSeqs(LinePairs - 1) }
    \cup { <<>>, [i \in 1..(LINE_BYTES + 3) |-> 7] }

UnpackInit == codec \in { [data |-> d, out |-> None] : d \in UnpackInputs }

\* out = unpack_12bit_packed_2048(data)
Unpack ==
    /\ codec.out = None
    /\ codec' = [codec EXCEPT !.out = Some(unpack_12bit_packed_2048(codec.data))]
    /\ UNCHANGED <<rx, reasmVars, fadeVars, txVars, netVars, concVars>>

InitUnpack ==
    /\ ReasmInit /\ FadeIdle /\ TxIdle /\ NetIdle /\ ConcIdle
    /\ rx = <<>>
    /\ UnpackInit

NextUnpack == Unpack

SpecUnpack == InitUnpack /\ [][NextUnpack]_vars

\* the three bytes that hold the pixels p0 and p1
C21_Pack(p0, p1) == << p0 % 256, (p0 \div 256) + 16 * (p1 % 16), p1 \div 16 >>

\* C21: for every line of 3-byte groups, the two pixels of each group are
\* in 0..4095, packing them again gives the three bytes of the group, and
\* the pixels of group g (from 0) are at the columns 2g and 2g+1.
C21_UnpackRoundTrip ==
    (codec.out # None /\ Len(codec.data) = LINE_BYTES) =>
        /\ The(codec.out).kind = "pixels"
        /\ Len(The(codec.out).px) = LINE_PIXELS
        /\ \A g \in 0..(LinePairs - 1) :
              LET p0 == The(codec.out).px[2 * g + 1]
                  p1 == The(codec.out).px[2 * g + 2]
              IN /\ p0 \in 0..4095
                 /\ p1 \in 0..4095
                 /\ C21_Pack(p0, p1) = SubSeq(codec.data, 3 * g + 1, 3 * g + 3)

\* a line whose first group has both nibbles of the middle byte set and
\* the largest outer bytes was unpacked
C21_Witness ==
    /\ codec.out # None
    /\ Len(codec.data) = LINE_BYTES
    /\ SubSeq(codec.data, 1, 3) = <<255, 165, 240>>
    /\ The(codec.out).px[1] = 255 + 5 * 256
    /\ The(codec.out).px[2] = 240 * 16 + 10

(***************************************************************************)
(* Further claims on the channel, calls in sequence (SpecTx)               *)
(***************************************************************************)

\* C22: between propagate calls _in_fade holds exactly when _fade_remaining
\* is in 1..BURST_FADE_LENGTH_PKTS; a call made in a fade takes one off the
\* counter, returns None, leaves the packet alone and starts no fade; and
\* the fade is over after exactly BURST_FADE_LENGTH_PKTS such calls.
C22_FadeMachine ==
    /\ [](/\ _in_fade <=> _fade_remaining \in 1..BURST_FADE_LENGTH_PKTS
          /\ _in_fade =>
                /\ chan.faded
                /\ _fade_remaining = BURST_FADE_LENGTH_PKTS - chan.since
          /\ (chan.faded /\ ~_in_fade) =>
                /\ chan.since >= BURST_FADE_LENGTH_PKTS
                /\ _fade_remaining = 0)
    /\ [][_in_fade =>
            \/ UNCHANGED <<chan, _in_fade, _fade_remaining>>
            \/ /\ _fade_remaining' = _fade_remaining - 1
               /\ _in_fade' = (_fade_remaining' >= 1)
               /\ chan'.out = None
               /\ chan'.after = chan'.inp
               /\ chan'.since = chan.since + 1]_vars

\* after the frame was sent, a fade has taken all its calls but the last:
\* one more call made in it ends it
C22_Witness ==
    /\ chan.faded
    /\ _in_fade
    /\ _fade_remaining = 1
    /\ chan.since = BURST_FADE_LENGTH_PKTS - 1
    /\ tx._img_sent_once

\* ------------------------------------------------------------------
\* telemetry_sender while the satellite moves (SpecOrbit): get_state()
\* returns the link state of the moment it is called, and the pass goes on
\* while send_image_if_needed sleeps in propagate between two datagrams.
\* ------------------------------------------------------------------

\* the link states of a pass: below the mask, visible without downlink
\* rate, and visible with rate at two elevations
LinkStates ==
    { [visible |-> FALSE, elev |-> 5, rate |-> 0],
      [visible |-> TRUE, elev |-> 50, rate |-> 0],
      [visible |-> TRUE, elev |-> 50, rate |-> 1],
      [visible |-> TRUE, elev |-> 90, rate |-> MaxRate] }

\* st = DEFAULT_ORBIT.get_state(): the locals visible, elev, rate_dl_mbps
\* of the transmitter t are the link state of this moment
Snapshot(t) ==
    /\ t.visible = orbit.visible
    /\ t.elev = orbit.elev
    /\ t.rate = orbit.rate

\* the satellite moves on: the link state is another one
OrbitMoves ==
    /\ orbit' \in LinkStates \ {orbit}
    /\ UNCHANGED <<net, reasmVars, fadeVars, txVars, concVars, rxVars>>

\* telemetry_sender reads the link state, no image is due
OrbitTickNoImage == TickNoImage /\ Snapshot(tx')

\* telemetry_sender reads the link state and send_image_if_needed enters
\* its loops
OrbitTickImage == TickImage /\ Snapshot(tx')

InitOrbit ==
    /\ ReasmInit /\ FadeIdle /\ TxInit /\ ConcIdle /\ RxIdle
    /\ net = {}
    /\ orbit \in LinkStates

NextOrbit == OrbitMoves \/ OrbitTickNoImage \/ OrbitTickImage \/ ImgStep \/ TmStep

SpecOrbit == InitOrbit /\ [][NextOrbit]_vars

\* C26: whenever an IMG datagram goes through the channel and is sent, the
\* link state of that moment is visible with rate_dl_mbps > 0, also when it
\* has changed since the frame was started.
C26_ImgOnlyWhileVisible ==
    [][(tx.pc = "img" /\ tx'.tried # tx.tried /\ sent' # None) =>
          (orbit.visible /\ orbit.rate > 0)]_vars

\* ------------------------------------------------------------------
\* tm_receiver over time (SpecRxLive): the clock always moves on; a receive
\* step needs a datagram to arrive, recvfrom blocks until one does, and
\* nothing in the program makes one arrive.
\* ------------------------------------------------------------------

SpecRxLive == InitRx /\ [][NextRx]_vars /\ WF_vars(RxTick)

\* C23: every FrameState in the table is eventually removed from it, by
\* completion or by the sweep once its age is beyond the timeout.
C23_EventuallyDestroyed ==
    \A f \in FrameIds : (f \in DOMAIN frames) ~> (f \notin DOMAIN frames)

(***************************************************************************)
(* Further claims on the reassembler, pushes in sequence (Spec)            *)
(***************************************************************************)

\* the reps dicts with the items of reps, in every insertion order: pushing
\* the same replicas in another order leaves the same rep -> bytes mapping
\* in one of these orders
C24_Orders(reps) ==
    { [j \in 1..Len(reps) |-> reps[p[j]]] : p \in Permutations(1..Len(reps)) }

\* the FrameStates that hold what st holds, replica for replica
C24_SameContents(st) ==
    LET variants == UNION { { [st.chunks[i] EXCEPT !.reps = r] :
                                r \in C24_Orders(st.chunks[i].reps) } :
                            i \in DOMAIN st.chunks }
    IN { [st EXCEPT !.chunks = c] :
           c \in { cf \in [DOMAIN st.chunks -> variants] :
                     \A i \in DOMAIN st.chunks :
                        /\ cf[i].t0 = st.chunks[i].t0
                        /\ cf[i].reps \in C24_Orders(st.chunks[i].reps) } }

\* C24: raw_noisy and raw_fixed of a completion depend only on the stored
\* mapping rep -> bytes of every chunk: a FrameState with the same replicas
\* stored in another order gives the same two outputs.
C24_OrderIndependent ==
    doneSt # None =>
        \A st2 \in C24_SameContents(The(doneSt)) :
            /\ Completion(0, st2).raw_fixed = Completion(0, The(doneSt)).raw_fixed
            /\ Completion(0, st2).raw_noisy = Completion(0, The(doneSt)).raw_noisy

\* ------------------------------------------------------------------
\* Pushes of replicas 0..2 of the two chunks of a frame, with payloads of
\* one and of two bytes, in sequence (SpecReplicas).
\* ------------------------------------------------------------------

MaxRepPushes == 3

\* chunk 0 with and without the last flag, chunk 1 as the last chunk
RepDatagrams ==
    { ImgPkt(0, 0, l, r, p) :
        l \in BOOLEAN, r \in 0..2, p \in { B64Encode(<<1>>), B64Encode(<<2, 3>>) } }
    \cup { ImgPkt(0, 1, TRUE, r, p) :
             r \in 0..2, p \in { B64Encode(<<1>>), B64Encode(<<2, 3>>) } }

\* img_reasm.push(pkt)
RepPush ==
    /\ npush < MaxRepPushes
    /\ \E pkt \in RepDatagrams : Push(pkt)
    /\ UNCHANGED <<fadeVars, txVars, netVars, concVars, rxVars>>

NextReplicas == RepPush

SpecReplicas == Init /\ [][NextReplicas]_vars

\* the parts part[i], ..., part[hi] one after the other
RECURSIVE C25_Concat(_, _, _)
C25_Concat(part, i, hi) ==
    IF i > hi THEN <<>> ELSE part[i] \o C25_Concat(part, i + 1, hi)

\* the length of the shortest replica of reps
C25_MinLength(reps) ==
    CHOOSE n \in { Len(reps[j].data) : j \in 1..Len(reps) } :
        \A j \in 1..Len(reps) : n <= Len(reps[j].data)

\* C25: the completion of a FrameState st has raw_noisy the payloads, for
\* the chunks 0..last_idx in this order, of rep 0 where it is stored and of
\* the first replica stored where it is not; raw_fixed the majority votes
\* over the replicas of these chunks in the same order, each as long as the
\* chunk's shortest replica; and the two of one length when the replicas of
\* every chunk are of one length.
C25_CompletionOutputs ==
    res # None =>
        LET st == The(doneSt)
            hi == The(st.last_idx)
            reps(i) == st.chunks[i].reps
            noisy == [i \in 0..hi |->
                        IF \E j \in 1..Len(reps(i)) : reps(i)[j].rep = 0
                        THEN reps(i)[CHOOSE j \in 1..Len(reps(i)) : reps(i)[j].rep = 0].data
                        ELSE reps(i)[1].data]
            fixed == [i \in 0..hi |->
                        majority_vote_bytes([j \in 1..Len(reps(i)) |-> reps(i)[j].data])]
        IN /\ The(res).raw_noisy = C25_Concat(noisy, 0, hi)
           /\ The(res).raw_fixed = C25_Concat(fixed, 0, hi)
           /\ \A i \in 0..hi : Len(fixed[i]) = C25_MinLength(reps(i))
           /\ (\A i \in 0..hi : \A j \in 1..Len(reps(i)) :
                   Len(reps(i)[j].data) = C25_MinLength(reps(i)))
                => Len(The(res).raw_fixed) = Len(The(res).raw_noisy)

\* a frame of one chunk completed without rep 0: replica 2, of two bytes,
\* was stored first and is the noisy output, replica 1 has one byte and the
\* vote is one byte long
C25_Witness ==
    /\ res # None
    /\ The(doneSt).chunks[0].reps =
          << [rep |-> 2, data |-> <<2, 3>>], [rep |-> 1, data |-> <<1>>] >>
    /\ The(res).raw_noisy = <<2, 3>>
    /\ Len(The(res).raw_fixed) = 1

====
